---- MODULE Spec2Model ----
(***************************************************************************)
(* vscode-updater: the update-check-and-apply cycle (Updater),             *)
(* the start-up sequence (start) and the scheduling loop (intervalLoop).   *)
(*                                                                         *)
(* One logical thread of control.  The async call chain                    *)
(*   start -> run -> checkUpdate -> getLocalVersion / getLatestVersion     *)
(*                -> isProcessRunning -> updateProcess -> downloadLatest   *)
(* is modelled with a program counter `pc` and a stack of return labels.   *)
(* Times are in milliseconds, the x-ratelimit-reset header in seconds.     *)
(***************************************************************************)
EXTENDS Integers, Sequences, FiniteSets, TLC

\* ---------------------------------------------------------------- bounds
\* Number of cycles (the one of start plus those of the loop) explored.
MaxCycles == 2
\* Largest value of the x-ratelimit-reset header, in seconds.
MaxResetSec == 3

\* Version tags published by the release API / found in the manifest.
Versions == {"v1", "v2"}
\* Values of "interval" in vscu.json that checkConfig accepts.
Intervals == {50, 100, 1800}
\* Date.now() when the process starts.
StartTimes == {0, 950}
\* Time a release query may take.
Latencies == {0, 50}

\* ------------------------------------------------------- program constants
\* public reset = 100
InitialReset == 100
\* if (this.reset > 100) return null  /  if (updater.reset > 100)
ResetThreshold == 100
\* if (interval < 100) interval = 100
IntervalFloor == 100

\* ------------------------------------------------------------ messages
\* A notification body: its kind, the version it names, the seconds it names.
Msg(k, v, s) == [kind |-> k, ver |-> v, secs |-> s]
NoMessage == Msg("", "", 0)
MsgAlreadyRunning == Msg("AlreadyRunning", "", 0)
MsgConfigNotFound == Msg("ConfigNotFound", "", 0)
MsgStartError == Msg("ErrorSeeLog", "", 0)
MsgLoopError == Msg("ErrorSeeLog", "", 0)
MsgLocalMissing == Msg("LocalVersionNotFound", "", 0)
MsgUpdateAvailable == Msg("UpdateAvailable", "", 0)
MsgUpdating(v) == Msg("Updating", v, 0)
MsgBusy == Msg("RunningUpdateSkipped", "", 0)
MsgSuccess == Msg("UpdateCompleted", "", 0)
\* formatMillisecondes renders whole seconds only: ms below a second are lost.
formatMillisecondes(ms) == ms \div 1000
MsgIntervalChanged(ms) == Msg("IntervalChanged", "", formatMillisecondes(ms))

\* ------------------------------------------------------------ values
\* Version | null : the empty sequence is null.
Null == <<>>
Release(v) == <<[version |-> v, zipurl |-> <<"zipball", v>>]>>

VARIABLES
    pc,          \* position of the single thread of control
    stack,       \* return labels of the pending awaits, innermost first
    retBool,     \* value the last checkUpdate resolved to
    latest,      \* value the last getLatestVersion resolved to
    version,     \* checkUpdate's local `version`
    reset,       \* updater.reset
    now,         \* Date.now()
    lastMessage, \* utils.ts lastMessage
    installed,   \* <dir>/resources/app/package.json: a version, or its absence
    archives,    \* versions whose archive file lies in tempDir
    runFile,     \* content of the run marker file
    cfgInterval, \* config.interval
    interval,    \* intervalLoop's local `interval`
    cycle,       \* number of cycles started
    inLoop,      \* TRUE once intervalLoop is entered
    \* observations of the current cycle (reset when a cycle begins)
    netCalls,    \* number of GETs sent to the release API
    firstResp,   \* answer to the first getLatestVersion call, <<>> before it
    lastQuery,   \* the last getLatestVersion call, <<>> before it
    procReport,  \* what isProcessRunning reported
    downloads, extractions, removals, \* counts of fetch(url), decompress, removeSync
    dlVersion,   \* version whose archive was requested
    shown,       \* notifications shown (notif.show)
    calls,       \* notify calls made
    errLogged,   \* console.error(e.message) ran in a catch
    path,        \* where run() left: a source line, "throw", or "" while running
    cycleInstalled, \* manifest state when the cycle began
    \* observations across cycles
    resetAt,     \* reset time (ms) of the last throttled response, <<>> if none
    lastResp,    \* kind of answer of the previous getLatestVersion call
    \* further observations
    tokenRead,   \* config.token as the last release query read it ("" if unset)
    sentHeaders, \* headers of the last GET sent to the release API
    changeNotices, \* "interval changed" notices shown since the start
    written,     \* version whose archive this cycle wrote to tempDir ("" if none)
    dlUrl,       \* URL of the archive request of this cycle, <<>> if none
    waits,       \* timer waits of the loop that have elapsed
    begun,       \* cycles begun: try bodies (checkConfig, updater.run) entered
    otherInstance  \* another updater process runs while this one starts up

vars == <<pc, stack, retBool, latest, version, reset, now, lastMessage, installed,
          archives, runFile, cfgInterval, interval, cycle, inLoop, netCalls,
          firstResp, lastQuery,
          procReport, downloads, extractions, removals, dlVersion, shown, calls,
          errLogged, path, cycleInstalled, resetAt, lastResp, tokenRead,
          sentHeaders, changeNotices, written, dlUrl, waits, begun, otherInstance>>

ctl == <<pc, stack>>
obs == <<netCalls, firstResp, lastQuery, procReport, downloads, extractions, removals, dlVersion,
         errLogged, path, cycleInstalled>>
note == <<lastMessage, shown, calls>>
env == <<installed, archives, runFile, cfgInterval>>
rate == <<reset, now, resetAt, lastResp>>
loc == <<retBool, latest, version>>
sched == <<interval, cycle, inLoop>>
seen == <<tokenRead, sentHeaders, changeNotices, written, dlUrl, waits, begun,
          otherInstance>>

\* ------------------------------------------------------------ helpers
\* export const runned = Deno.readTextFileSync(runFile) === "true"
runned == runFile = "true"

\* variant: the short-circuit compares with a second instead of the threshold
RateLimitedAboveSecond(r) == r > 1000

\* if (this.reset > 100) return null
RateLimited(r) == r > ResetThreshold

\* this.reset = (Number(resetHeader) * 1000) - Date.now()
RemainingMillis(hdr, t) == (hdr * 1000) - t

\* variant: any available release counts as an update
NeedUpdateIgnoringVersion(l, v) == l # Null

\* (latest) => latest !== null && latest.version !== version
NeedUpdate(l, v) == l # Null /\ l[1].version # v

\* variant: the process check does not gate the update
MayUpdateAlways(running) == TRUE

\* variant: a failed tasklist invocation is taken as "not running"
ProcessCheckAssumesStopped(out) == IF out = "failed" THEN "notRunning" ELSE out

\* isProcessRunning: try { ... return outputStr.includes(processName) } catch (e) { throw e }
ProcessCheck(out) == out

\* if (!await this.isProcessRunning("Code.exe")) { update } else { skip }
MayUpdate(running) == ~running

\* let interval = config.interval; if (updater.reset > 100) interval = updater.reset
OverrideInterval(cfg, r) == IF r > ResetThreshold THEN r ELSE cfg

\* variant: no floor on the interval
FloorIntervalMissing(i) == i

\* variant: the notice is given only for a lengthened interval
IntervalChangedLonger(i, cfg) == i > cfg

\* if (interval !== config.interval) { console.log(...); await notify(...) }
IntervalChanged(i, cfg) == i # cfg

\* if (interval < 100) interval = 100
FloorInterval(i) == IF i < IntervalFloor THEN IntervalFloor ELSE i

\* variant: the loop's catch ends the process as the catch of start() does
AfterLoopCatchExits == "exited"

\* variant: after an error the loop retries at once, without the timer
AfterLoopCatchRetries == "loop_checkConfig"

\* the catch inside while (true) falls through to the next iteration
AfterLoopCatch == "wait"

\* the catch of start() ends in exit()
AfterStartCatch == "exited"

\* variant: notify shows every message, repeated or not
notifyEvery(m) ==
    /\ calls' = Append(calls, m)
    /\ lastMessage' = m
    /\ shown' = Append(shown, m)

\* notify(title, message): an equal message is dropped, else it is shown
notify(m) ==
    /\ calls' = Append(calls, m)
    /\ IF lastMessage = m
         THEN UNCHANGED <<lastMessage, shown>>
         ELSE /\ lastMessage' = m
              /\ shown' = Append(shown, m)

\* exit(message): notify, setRun(false), Deno.exit()
exit(m) ==
    /\ notify(m)
    /\ runFile' = "false"
    /\ pc' = "exited"
    /\ stack' = <<>>

\* an exception unwinds to the try block around the cycle
Throw ==
    /\ pc' = IF inLoop THEN "loop_catch" ELSE "start_catch"
    /\ stack' = <<>>

\* `return` of an awaited call
Return ==
    /\ pc' = Head(stack)
    /\ stack' = Tail(stack)

\* variant: updater.run() is started but not awaited
CallRunDetached(retLabel) ==
    /\ pc' = retLabel
    /\ stack' = <<>>

\* await updater.run(): run() starts with await this.checkUpdate()
CallRun(retLabel) ==
    /\ pc' = "checkUpdate"
    /\ stack' = <<"run_1", retLabel>>

\* values of "token" in vscu.json; "" stands for no token
Tokens == {"", "ghp"}

\* ReqHeaders: if (config.token) ReqHeaders.set("Authorization", `token ${config.token}`)
RequestHeaders(token) ==
    IF token # "" THEN {<<"Authorization", <<"token", token>>>>} ELSE {}

\* const res = await fetch(uri): the request carries no init object, so no headers
FetchHeaders(reqHeaders) == {}

\* variant: the archive is requested from the zipball_url of the release
DownloadUrlFromRelease(v) == <<"zipball", v>>

\* const url = `https://vscode.download.prss.microsoft.com/.../VSCode-win32-x64-${version}.zip`
DownloadUrl(v) == <<"prss-stable", v>>

\* variant: the archive stays in tempDir after the extraction
RemoveArchiveSkipped(files, v) == files

\* Deno.removeSync(archivePath)
RemoveArchive(files, v) == files \ {v}

\* answers of the release API to one query
Responses ==
    [kind : {"release"}, tag : Versions, hdr : {0}]
      \cup [kind : {"message"}, tag : {""}, hdr : 0..MaxResetSec]
      \cup [kind : {"error"}, tag : {""}, hdr : {0}]

\* one observed getLatestVersion call: this.reset on entry, whether a GET was
\* sent, the answer, whether the reset time of the last throttle had passed,
\* whether a throttled answer had set this.reset before, and the answer of the
\* call before it
QueryRec(pre, net, resp, tag, due, prev) ==
    <<[pre |-> pre, net |-> net, resp |-> resp, tag |-> tag, due |-> due,
       throttled |-> resetAt # <<>>, prev |-> prev]>>

\* the answer a cycle saw first
FirstOf(first, resp, tag) ==
    IF first = <<>> THEN <<[resp |-> resp, tag |-> tag]>> ELSE first

\* states of the manifest file
ManifestStates == Versions \cup {"missing", "malformed", "noversion"}

\* ------------------------------------------------------------ initial state
Init ==
    /\ pc = "start"
    /\ stack = <<>>
    /\ retBool = FALSE
    /\ latest = Null
    /\ version = ""
    /\ reset = InitialReset
    /\ now \in StartTimes
    /\ lastMessage = NoMessage
    /\ installed \in ManifestStates
    /\ archives = {}
    /\ runFile = ""
    /\ cfgInterval \in Intervals
    /\ interval = 0
    /\ cycle = 0
    /\ inLoop = FALSE
    /\ netCalls = 0
    /\ firstResp = <<>>
    /\ lastQuery = <<>>
    /\ procReport = "none"
    /\ downloads = 0
    /\ extractions = 0
    /\ removals = 0
    /\ dlVersion = ""
    /\ shown = <<>>
    /\ calls = <<>>
    /\ errLogged = FALSE
    /\ path = ""
    /\ cycleInstalled = installed
    /\ resetAt = <<>>
    /\ lastResp = "none"
    /\ tokenRead = ""
    /\ sentHeaders = {}
    /\ changeNotices = 0
    /\ written = ""
    /\ dlUrl = <<>>
    /\ waits = 0
    /\ begun = 0
    /\ otherInstance \in BOOLEAN

\* ------------------------------------------------------------ start()
\* if (runned) { notify; exit } setRun(true)
start ==
    /\ pc = "start"
    /\ UNCHANGED seen
    /\ IF runned
         THEN exit(MsgAlreadyRunning)
         ELSE /\ runFile' = "true"
              /\ pc' = "start_checkConfig"
              /\ UNCHANGED <<stack, note>>
    /\ UNCHANGED <<loc, rate, installed, archives, cfgInterval, sched, obs>>

\* try { if (!await checkConfig()) await exit(...); await updater.run() }
startCheckConfig ==
    /\ pc = "start_checkConfig"
    /\ otherInstance' = FALSE
    /\ UNCHANGED <<tokenRead, sentHeaders, changeNotices, written, dlUrl, waits>>
    /\ \E c \in {"ok", "missing", "invalid"} :
         CASE c = "ok" ->
                /\ CallRun("intervalLoop")
                /\ cycle' = 1
                /\ UNCHANGED <<note, runFile>>
           [] c = "missing" ->
                /\ exit(MsgConfigNotFound)
                /\ UNCHANGED cycle
           [] c = "invalid" ->
                /\ Throw
                /\ UNCHANGED <<note, runFile, cycle>>
    /\ begun' = begun + 1
    /\ UNCHANGED <<loc, rate, installed, archives, cfgInterval, interval, inLoop,
                   obs>>

\* catch (e) { console.error(e.message); await exit("An error occurred...") }
startCatch ==
    /\ pc = "start_catch"
    /\ UNCHANGED seen
    /\ errLogged' = TRUE
    /\ notify(MsgStartError)
    /\ runFile' = "false"
    /\ pc' = AfterStartCatch
    /\ stack' = <<>>
    /\ UNCHANGED <<loc, rate, installed, archives, cfgInterval, sched, netCalls, firstResp, lastQuery,
                   procReport, downloads, extractions, removals, dlVersion, path,
                   cycleInstalled>>

\* ------------------------------------------------------------ Updater
\* checkUpdate, first half: const version = await this.getLocalVersion();
\* if (version === undefined) return false.
\* config.dir is read from vscu.json: when the file has gone and the cached
\* copy is older than a second, readConfig throws.
getLocalVersion ==
    /\ pc = "checkUpdate"
    /\ UNCHANGED seen
    /\ \E cfgReadable \in {TRUE, FALSE} :
         /\ cfgReadable \/ inLoop
         /\ CASE ~cfgReadable ->
                   /\ Throw
                   /\ path' = "throw"
                   /\ UNCHANGED <<note, retBool, version>>
              [] cfgReadable /\ installed = "missing" ->
                   /\ notify(MsgLocalMissing)
                   /\ retBool' = FALSE
                   /\ Return
                   /\ UNCHANGED <<version, path>>
              [] cfgReadable /\ installed = "malformed" ->
                   /\ Throw
                   /\ path' = "throw"
                   /\ UNCHANGED <<note, retBool, version>>
              [] cfgReadable /\ installed = "noversion" ->
                   /\ retBool' = FALSE
                   /\ Return
                   /\ UNCHANGED <<note, version, path>>
              [] cfgReadable /\ installed \in Versions ->
                   /\ version' = installed
                   /\ pc' = "getLatestVersion"
                   /\ stack' = <<"checkUpdate_1">> \o stack
                   /\ UNCHANGED <<note, retBool, path>>
    /\ UNCHANGED <<latest, rate, env, sched, netCalls, firstResp, lastQuery, procReport, downloads,
                   extractions, removals, dlVersion, errLogged, cycleInstalled>>

\* getLatestVersion: short-circuit on this.reset, else one GET to the release API
getLatestVersion ==
    /\ pc = "getLatestVersion"
    /\ UNCHANGED <<changeNotices, written, dlUrl, waits, begun, otherInstance>>
    /\ LET due == resetAt # <<>> /\ now >= resetAt[1]
       IN IF RateLimited(reset)
            THEN /\ latest' = Null
                 /\ lastQuery' = QueryRec(reset, FALSE, "short", "", due, lastResp)
                 /\ firstResp' = FirstOf(firstResp, "short", "")
                 /\ UNCHANGED netCalls
                 /\ lastResp' = "short"
                 /\ Return
                 /\ UNCHANGED <<reset, now, resetAt, path, tokenRead, sentHeaders>>
            ELSE \E r \in Responses, d \in Latencies, tok \in Tokens :
                 /\ now' = now + d
                 /\ tokenRead' = tok
                 /\ sentHeaders' = FetchHeaders(RequestHeaders(tok))
                 /\ netCalls' = netCalls + 1
                 /\ lastQuery' = QueryRec(reset, TRUE, r.kind, r.tag, due, lastResp)
                 /\ firstResp' = FirstOf(firstResp, r.kind, r.tag)
                 /\ lastResp' = r.kind
                 /\ CASE r.kind = "release" ->
                           /\ latest' = Release(r.tag)
                           /\ Return
                           /\ UNCHANGED <<reset, resetAt, path>>
                      [] r.kind = "message" ->
                           /\ reset' = RemainingMillis(r.hdr, now')
                           /\ resetAt' = <<r.hdr * 1000>>
                           /\ latest' = Null
                           /\ Return
                           /\ UNCHANGED path
                      [] r.kind = "error" ->
                           /\ Throw
                           /\ path' = "throw"
                           /\ UNCHANGED <<latest, reset, resetAt>>
    /\ UNCHANGED <<retBool, version, note, env, sched, procReport, downloads,
                   extractions, removals, dlVersion, errLogged, cycleInstalled>>

\* checkUpdate, second half: needUpdate; if (needUpdate) notify; return needUpdate
checkUpdate ==
    /\ pc = "checkUpdate_1"
    /\ UNCHANGED seen
    /\ retBool' = NeedUpdate(latest, version)
    /\ IF retBool' THEN notify(MsgUpdateAvailable) ELSE UNCHANGED note
    /\ Return
    /\ UNCHANGED <<latest, version, rate, env, sched, obs>>

\* run: if (await this.checkUpdate()) { ... }
run ==
    /\ pc = "run_1"
    /\ UNCHANGED seen
    /\ IF retBool
         THEN /\ pc' = "isProcessRunning"
              /\ UNCHANGED <<stack, path>>
         ELSE /\ path' = "run:301"
              /\ Return
    /\ UNCHANGED <<loc, rate, env, sched, note, netCalls, firstResp,
                   lastQuery, procReport, downloads,
                   extractions, removals, dlVersion, errLogged, cycleInstalled>>

\* run: if (!await this.isProcessRunning("Code.exe")) { getLatestVersion ... }
\*      else { notify("Vscode is running, update skipped...") }
isProcessRunning ==
    /\ pc = "isProcessRunning"
    /\ UNCHANGED seen
    /\ \E out \in {"running", "notRunning", "failed"} :
         /\ procReport' = out
         /\ CASE ProcessCheck(out) = "failed" ->
                   /\ Throw
                   /\ path' = "throw"
                   /\ UNCHANGED note
              [] ProcessCheck(out) # "failed" /\ MayUpdate(ProcessCheck(out) = "running") ->
                   /\ pc' = "getLatestVersion"
                   /\ stack' = <<"run_2">> \o stack
                   /\ UNCHANGED <<note, path>>
              [] ProcessCheck(out) # "failed" /\ ~MayUpdate(ProcessCheck(out) = "running") ->
                   /\ notify(MsgBusy)
                   /\ path' = "run:312"
                   /\ Return
    /\ UNCHANGED <<loc, rate, env, sched, netCalls, firstResp, lastQuery, downloads, extractions,
                   removals, dlVersion, errLogged, cycleInstalled>>

\* run: if (latest !== null) notify("Updating vscode to ..."); await this.updateProcess()
\* updateProcess starts with await this.checkUpdate()
runUpdate ==
    /\ pc = "run_2"
    /\ UNCHANGED seen
    /\ IF latest # Null THEN notify(MsgUpdating(latest[1].version)) ELSE UNCHANGED note
    /\ pc' = "checkUpdate"
    /\ stack' = <<"updateProcess_1">> \o stack
    /\ UNCHANGED <<loc, rate, env, sched, obs>>

\* updateProcess: if (!await this.checkUpdate()) return; await this.getLatestVersion()
updateProcess ==
    /\ pc = "updateProcess_1"
    /\ UNCHANGED seen
    /\ IF retBool
         THEN /\ pc' = "getLatestVersion"
              /\ stack' = <<"updateProcess_2">> \o stack
              /\ UNCHANGED path
         ELSE /\ path' = "updateProcess:263"
              /\ Return
    /\ UNCHANGED <<loc, rate, env, sched, note, netCalls, firstResp,
                   lastQuery, procReport, downloads,
                   extractions, removals, dlVersion, errLogged, cycleInstalled>>

\* updateProcess: if (latest === null || latest.version === undefined) return;
\* downloadLatest(latest.version): fetch(url); if (!res.ok) throw; writeFileSync
downloadLatest ==
    /\ pc = "updateProcess_2"
    /\ UNCHANGED <<tokenRead, sentHeaders, changeNotices, waits, begun,
                   otherInstance>>
    /\ IF latest = Null
         THEN /\ path' = "updateProcess:265"
              /\ Return
              /\ UNCHANGED <<downloads, dlVersion, archives, written, dlUrl>>
         ELSE /\ downloads' = downloads + 1
              /\ dlVersion' = latest[1].version
              /\ dlUrl' = DownloadUrl(latest[1].version)
              /\ \E ok \in BOOLEAN :
                   IF ok
                     THEN /\ archives' = archives \cup {latest[1].version}
                          /\ written' = latest[1].version
                          /\ pc' = "decompress"
                          /\ UNCHANGED <<stack, path>>
                     ELSE /\ Throw
                          /\ path' = "throw"
                          /\ UNCHANGED <<archives, written>>
    /\ UNCHANGED <<loc, rate, installed, runFile, cfgInterval, sched, note, netCalls, firstResp,
                   lastQuery,
                   procReport, extractions, removals, errLogged, cycleInstalled>>

\* updateProcess: await decompress(archivePath, config.dir); Deno.removeSync(archivePath)
decompress ==
    /\ pc = "decompress"
    /\ UNCHANGED seen
    /\ extractions' = extractions + 1
    /\ \E ok \in BOOLEAN :
         IF ok
           THEN /\ installed' = dlVersion
                /\ archives' = RemoveArchive(archives, dlVersion)
                /\ removals' = removals + 1
                /\ path' = "updateProcess:269"
                /\ Return
           ELSE /\ Throw
                /\ path' = "throw"
                /\ UNCHANGED <<installed, archives, removals>>
    /\ UNCHANGED <<loc, rate, runFile, cfgInterval, sched, note, netCalls, firstResp,
                   lastQuery, procReport,
                   downloads, dlVersion, errLogged, cycleInstalled>>

\* ------------------------------------------------------------ intervalLoop
\* let interval = config.interval; override by updater.reset; floor; notify a change
intervalLoop ==
    /\ pc = "intervalLoop"
    /\ UNCHANGED <<tokenRead, sentHeaders, written, dlUrl, waits, begun,
                   otherInstance>>
    /\ inLoop' = TRUE
    /\ interval' = FloorInterval(OverrideInterval(cfgInterval, reset))
    /\ IF IntervalChanged(interval', cfgInterval)
         THEN notify(MsgIntervalChanged(interval'))
         ELSE UNCHANGED note
    /\ changeNotices' = changeNotices + (Len(shown') - Len(shown))
    /\ pc' = "wait"
    /\ UNCHANGED <<stack, loc, rate, env, cycle, obs>>

\* while (true) { await new Promise(resolve => setTimeout(resolve, interval)) ...
wait ==
    /\ pc = "wait"
    /\ UNCHANGED <<changeNotices, begun, otherInstance>>
    /\ cycle < MaxCycles
    /\ now' = now + interval
    /\ cycle' = cycle + 1
    /\ pc' = "loop_checkConfig"
    /\ netCalls' = 0
    /\ firstResp' = <<>>
    /\ lastQuery' = <<>>
    /\ procReport' = "none"
    /\ downloads' = 0
    /\ extractions' = 0
    /\ removals' = 0
    /\ dlVersion' = ""
    /\ shown' = <<>>
    /\ calls' = <<>>
    /\ errLogged' = FALSE
    /\ path' = ""
    /\ cycleInstalled' = installed
    /\ tokenRead' = ""
    /\ sentHeaders' = {}
    /\ written' = ""
    /\ dlUrl' = <<>>
    /\ waits' = waits + 1
    /\ retBool' = FALSE
    /\ latest' = Null
    /\ version' = ""
    /\ UNCHANGED <<stack, reset, resetAt, lastResp, lastMessage, env, interval, inLoop>>

\* try { if (!await checkConfig()) notify("Configuration file not found");
\*       await updater.run(); ...
loopCheckConfig ==
    /\ pc = "loop_checkConfig"
    /\ begun' = begun + 1
    /\ UNCHANGED <<tokenRead, sentHeaders, changeNotices, written, dlUrl, waits,
                   otherInstance>>
    /\ \E c \in {"ok", "missing", "invalid"} :
         CASE c = "ok" ->
                /\ CallRun("loop_ret")
                /\ UNCHANGED <<note, path>>
           [] c = "missing" ->
                /\ notify(MsgConfigNotFound)
                /\ CallRun("loop_ret")
                /\ UNCHANGED path
           [] c = "invalid" ->
                /\ Throw
                /\ path' = "throw"
                /\ UNCHANGED note
    /\ UNCHANGED <<loc, rate, env, sched, netCalls, firstResp, lastQuery, procReport, downloads,
                   extractions, removals, dlVersion, errLogged, cycleInstalled>>

\* ... await notify("Vscode Updater", "Update completed successfully!") }
loopSuccess ==
    /\ pc = "loop_ret"
    /\ UNCHANGED seen
    /\ notify(MsgSuccess)
    /\ pc' = "wait"
    /\ UNCHANGED <<stack, loc, rate, env, sched, obs>>

\* catch (e) { console.log; console.error(e.message); console.error(e.stack); notify }
loopCatch ==
    /\ pc = "loop_catch"
    /\ UNCHANGED seen
    /\ errLogged' = TRUE
    /\ notify(MsgLoopError)
    /\ pc' = AfterLoopCatch
    /\ IF pc' = "exited" THEN runFile' = "false" ELSE UNCHANGED runFile
    /\ UNCHANGED <<stack, loc, rate, installed, archives, cfgInterval, sched, netCalls, firstResp, lastQuery,
                   procReport, downloads, extractions, removals, dlVersion, path,
                   cycleInstalled>>

\* ------------------------------------------------------------ specification
Next ==
    \/ start
    \/ startCheckConfig
    \/ startCatch
    \/ getLocalVersion
    \/ getLatestVersion
    \/ checkUpdate
    \/ run
    \/ isProcessRunning
    \/ runUpdate
    \/ updateProcess
    \/ downloadLatest
    \/ decompress
    \/ intervalLoop
    \/ wait
    \/ loopCheckConfig
    \/ loopSuccess
    \/ loopCatch

Spec == Init /\ [][Next]_vars

\* ------------------------------------------------------------ observations
\* number of times message m was shown in the current cycle
Shown(m) == Cardinality({i \in DOMAIN shown : shown[i] = m})

\* the cycle's first release query was answered with a release tagged t
FirstRelease(t) ==
    /\ firstResp # <<>>
    /\ firstResp[1].resp = "release"
    /\ firstResp[1].tag = t

\* the cycle's first release query named a version other than the installed one
VersionsDiffer ==
    /\ cycleInstalled \in Versions
    /\ \E t \in Versions \ {cycleInstalled} : FirstRelease(t)

\* CycleOutcome of the cycle, from the place where run() was left
Outcome ==
    CASE path = "" -> "Running"
      [] path = "throw" -> "Failed"
      [] path = "run:312" -> "UpdateSkippedBusy"
      [] path = "updateProcess:269" -> "UpdateAppliedOk"
      [] OTHER -> "NoUpdateNeeded"

Max(a, b) == IF a > b THEN a ELSE b

\* ------------------------------------------------------------ C1
\* C1: when the installed version differs from the latest remote version and
\* the target process is reported not running, a cycle that raises no error
\* performs exactly one download and one extraction, deletes the archive and
\* ends as UpdateAppliedOk, whatever the later release queries answer.
C1_UpdateApplied ==
    (VersionsDiffer /\ procReport = "notRunning" /\ path \notin {"", "throw"})
      => /\ downloads = 1
         /\ extractions = 1
         /\ removals = 1
         /\ Outcome = "UpdateAppliedOk"

\* ------------------------------------------------------------ C2
\* C2: once the reset time reported by the last throttled response has passed,
\* a getLatestVersion call sends a release query again.
C2_QueryAfterReset ==
    (lastQuery # <<>> /\ lastQuery[1].due) => lastQuery[1].net

\* ------------------------------------------------------------ C3
\* C3 as stated: whenever a throttled response has left a positive remaining
\* time in this.reset, getLatestVersion returns without a network call.
C3_ShortCircuitWhenPositive ==
    (lastQuery # <<>> /\ lastQuery[1].throttled /\ lastQuery[1].pre > 0)
      => ~lastQuery[1].net

\* C3 amended: whenever this.reset exceeds 100 ms, getLatestVersion returns
\* null without a network call; so when a call is throttled and leaves more than
\* 100 ms, the call after it sends nothing.
C3_ShortCircuitAboveThreshold ==
    /\ (lastQuery # <<>> /\ lastQuery[1].pre > ResetThreshold)
         => (~lastQuery[1].net /\ lastQuery[1].resp = "short")
    /\ (lastQuery # <<>> /\ lastQuery[1].resp = "short")
         => (latest = Null /\ lastQuery[1].pre > ResetThreshold)

\* a call right after a throttled one that left more than 100 ms was short-circuited
C3_Witness ==
    /\ lastQuery # <<>>
    /\ lastQuery[1].prev = "message"
    /\ lastQuery[1].pre > ResetThreshold
    /\ ~lastQuery[1].net
    /\ netCalls = 2

\* ------------------------------------------------------------ C4
\* C4: the delay of every wait reflects the rate-limit state the previous cycle
\* left: a remaining time above the configured interval is the delay, and
\* without a rate limit the delay is the configured interval (floored).
C4_DelayFollowsRateLimit ==
    pc = "wait" =>
      /\ (reset > Max(cfgInterval, IntervalFloor) => interval = reset)
      /\ (reset <= ResetThreshold => interval = Max(cfgInterval, IntervalFloor))

\* ------------------------------------------------------------ C5
\* C5: for a configured interval of at least 100 ms the delay is never shorter
\* than the configured interval, and when computed it is the configured interval
\* unless the remaining time is longer, in which case it is the remaining time.
C5_DelayAtLeastConfigured ==
    (pc = "wait" /\ cfgInterval >= IntervalFloor) =>
      /\ interval >= cfgInterval
      /\ (cycle = 1 => interval = Max(cfgInterval, reset))

C7_NoUpdateWhenEqual ==
    (cycleInstalled \in Versions /\ FirstRelease(cycleInstalled))
      => /\ Outcome \in {"Running", "NoUpdateNeeded"}
         /\ path \in {"", "run:301"}
         /\ procReport = "none"
         /\ downloads = 0
         /\ extractions = 0
         /\ netCalls = 1
         /\ installed = cycleInstalled

\* a cycle with equal versions has ended
C7_Witness ==
    /\ cycleInstalled \in Versions
    /\ FirstRelease(cycleInstalled)
    /\ path = "run:301"

\* ------------------------------------------------------------ C8
\* C8: if the versions differ and the target process is reported running, the
\* cycle ends as UpdateSkippedBusy, the "please close" notice has been shown
\* once, and nothing is downloaded or extracted.
C8_SkippedWhenBusy ==
    (VersionsDiffer /\ procReport = "running")
      => /\ Outcome = "UpdateSkippedBusy"
         /\ Shown(MsgBusy) = 1
         /\ downloads = 0
         /\ extractions = 0
         /\ netCalls = 1
         /\ installed = cycleInstalled

\* a cycle of the loop found the process running
C8_Witness ==
    /\ VersionsDiffer
    /\ procReport = "running"
    /\ path = "run:312"
    /\ cycle >= 2

\* ------------------------------------------------------------ C9
\* C9: in every cycle in which the manifest is missing, the cycle returns
\* NoUpdateNeeded, exactly one "cannot find local version" notice is shown in
\* that cycle, and no network call is made.
C9_OneNoticePerCycle ==
    (cycleInstalled = "missing" /\ path = "run:301")
      => /\ Outcome = "NoUpdateNeeded"
         /\ Shown(MsgLocalMissing) = 1
         /\ netCalls = 0

\* ------------------------------------------------------------ C10
\* C10: every wait of the loop uses a delay of at least 100 ms, and a computed
\* delay below 100 gives a wait of exactly 100.
C10_DelayFloor ==
    inLoop =>
      /\ interval >= IntervalFloor
      /\ (cycle = 1 /\ OverrideInterval(cfgInterval, reset) < IntervalFloor)
           => interval = IntervalFloor

\* the loop waited with a configured interval below the floor
C10_Witness ==
    /\ inLoop
    /\ cycle >= 2
    /\ cfgInterval < IntervalFloor
    /\ interval = IntervalFloor

\* ------------------------------------------------------------ C11
\* C11: whenever a token is configured, every release query sent to the release
\* API carries the header "Authorization: token <value>".
C11_TokenSent ==
    (lastQuery # <<>> /\ lastQuery[1].net /\ tokenRead # "")
      => <<"Authorization", <<"token", tokenRead>>>> \in sentHeaders

\* ------------------------------------------------------------ C12
\* positions of the scheduler outside a cycle, in the loop
BetweenCycles == {"intervalLoop", "wait", "loop_ret", "loop_catch"}

\* C12: at most one cycle executes at a time: the scheduler is at or before its
\* next wait only when the cycle before has completed or failed, download and
\* unpack included, and while a cycle runs the scheduler's continuation is the
\* one pending return of that cycle.
C12_OneCycleAtATime ==
    /\ pc \in BetweenCycles
         => /\ path # ""
            /\ stack = <<>>
            /\ downloads = 1 => path \in {"throw", "updateProcess:269"}
            /\ path = "updateProcess:269"
                 => (downloads = 1 /\ extractions = 1 /\ removals = 1)
    /\ (begun >= 1 /\ path = "" /\ pc \notin {"start_catch", "exited", "loop_checkConfig"})
         => /\ stack # <<>>
            /\ stack[Len(stack)] = IF inLoop THEN "loop_ret" ELSE "intervalLoop"
            /\ \A i \in 1..(Len(stack) - 1) : stack[i] \notin {"loop_ret", "intervalLoop"}

\* the loop is at its wait after a cycle that downloaded and unpacked an archive
C12_Witness ==
    /\ pc = "wait"
    /\ cycle = 2
    /\ path = "updateProcess:269"

\* ------------------------------------------------------------ C13
\* C13: whenever the delay of the loop's waits differs from the configured
\* interval, the "interval changed" notice was shown before the first such wait,
\* exactly once; when the delay is the configured interval it is never shown.
C13_ChangeNoticedOnce ==
    /\ ~inLoop => (changeNotices = 0 /\ waits = 0)
    /\ inLoop => changeNotices = IF interval # cfgInterval THEN 1 ELSE 0

\* a wait with a delay other than the configured interval has elapsed
C13_Witness ==
    /\ waits >= 1
    /\ interval # cfgInterval
    /\ interval > IntervalFloor
    /\ changeNotices = 1

\* ------------------------------------------------------------ C14
\* C14: the "update available" notice is shown at most once in a cycle.
C14_OneUpdateNotice ==
    Shown(MsgUpdateAvailable) <= 1

C16_FirstCycleThenWaits ==
    /\ begun <= waits + 1
    /\ ~inLoop => waits = 0
    /\ pc \in {"start", "start_checkConfig"} => begun = 0
    /\ pc = "loop_checkConfig" => (begun = waits /\ waits >= 1)
    /\ pc \notin {"start", "start_checkConfig", "loop_checkConfig"} => begun = waits + 1

\* the second cycle has ended after exactly one wait
C16_Witness ==
    /\ pc = "wait"
    /\ waits = 1
    /\ begun = 2
    /\ path # ""

\* ------------------------------------------------------------ C17
\* C17 as stated: the archive is requested from the zipurl of the release that
\* the release query returned.
C17_FromArchiveUrl ==
    dlUrl # <<>> => (latest # Null /\ dlUrl = latest[1].zipurl)

\* C17 amended: the archive is requested from the fixed download URL built from
\* the version tag of the release returned by the last release query of the
\* cycle; the zipurl of the release is not used.
C17_FromVersionTemplate ==
    dlUrl # <<>>
      => /\ latest # Null
         /\ dlUrl = <<"prss-stable", latest[1].version>>
         /\ dlUrl # latest[1].zipurl
         /\ dlVersion = latest[1].version
         /\ lastQuery # <<>>
         /\ lastQuery[1].resp = "release"
         /\ lastQuery[1].tag = latest[1].version

\* an update was applied
C17_Witness ==
    /\ dlUrl # <<>>
    /\ path = "updateProcess:269"

\* ------------------------------------------------------------ C18
\* C18: if another updater instance runs when this one starts, this one notifies
\* "Already running" and exits without beginning a cycle.
C18_DuplicateDetected ==
    otherInstance
      => /\ pc \in {"start", "exited"}
         /\ pc = "exited" => (begun = 0 /\ calls = <<MsgAlreadyRunning>>)

\* ------------------------------------------------------------ C19
\* C19: a failure of the process listing is an error of the cycle: nothing is
\* downloaded or extracted and the installation is unchanged.
C19_ProcessCheckFailure ==
    procReport = "failed"
      => /\ path = "throw"
         /\ Outcome = "Failed"
         /\ downloads = 0
         /\ extractions = 0
         /\ dlUrl = <<>>
         /\ installed = cycleInstalled
         /\ pc \in {"start_catch", "loop_catch", "exited", "wait"}

\* a cycle of the loop failed on the process listing and the loop goes on
C19_Witness ==
    /\ procReport = "failed"
    /\ inLoop
    /\ pc = "wait"
    /\ errLogged

\* ------------------------------------------------------------ C20
\* C20: no two notifications shown one after the other have the same message:
\* lastMessage is the message of the previous notify call, a notify call with
\* that message shows nothing and leaves lastMessage unchanged, and any other
\* call shows its message.
C20_NoConsecutiveDuplicates ==
    /\ [](\A i \in 1..(Len(shown) - 1) : shown[i] # shown[i + 1])
    /\ [](shown # <<>> => shown[Len(shown)] = lastMessage)
    /\ [](calls # <<>> => calls[Len(calls)] = lastMessage)
    /\ [][calls' = <<>> => lastMessage' = lastMessage]_vars
    /\ [][Len(calls') = Len(calls) + 1
            => IF calls'[Len(calls')] = lastMessage
                 THEN lastMessage' = lastMessage /\ shown' = shown
                 ELSE /\ lastMessage' = calls'[Len(calls')]
                      /\ shown' = Append(shown, calls'[Len(calls')])]_vars

\* a notify call repeated the message of the call before it and was dropped
C20_Witness ==
    /\ \E i \in 2..Len(calls) : calls[i] = calls[i - 1]
    /\ Len(shown) < Len(calls)
    /\ shown # <<>>

\* ------------------------------------------------------------ C21
\* C21: in a cycle that downloads an archive, the downloaded version is the
\* version the cycle's first release answer named and checkUpdate compared with
\* the installed one, it is the version named by every "Updating vscode to the
\* latest version" notice of the cycle, and it differs from the installed
\* version.
C21_AnnouncedIsDownloaded ==
    dlUrl # <<>>
      => /\ FirstRelease(dlVersion)
         /\ \A i \in DOMAIN shown :
              shown[i].kind = "Updating" => shown[i].ver = dlVersion
         /\ dlVersion # cycleInstalled

\* ------------------------------------------------------------ C22
\* C22: the "Update completed successfully!" notification is shown only in a
\* cycle that downloaded, extracted and deleted an archive.
C22_SuccessOnlyAfterUpdate ==
    Shown(MsgSuccess) >= 1
      => /\ Outcome = "UpdateAppliedOk"
         /\ downloads = 1
         /\ extractions = 1
         /\ removals = 1

====
